---- MODULE Spec2Model ----
(***************************************************************************)
(* Model of the UpcomingPayments Lightning web component                   *)
(* (force-app/main/default/lwc/upcomingPayments/upcomingPayments.js).      *)
(*                                                                         *)
(* JavaScript values are tagged records: Undefined, Null, Str(s), Num(c)   *)
(* and Arr(seq).  Numbers are amounts held in cents (two fixed decimals).  *)
(* Characters outside ASCII are written as named entities: the em-dash is  *)
(* "&mdash;", the non-breaking space "&nbsp;", the middle dot "&middot;".  *)
(* navigator.language is taken to be en-US, so both branches of the        *)
(* try/catch in formatCurrency and formatDiscount give the en-US/USD form. *)
(***************************************************************************)
EXTENDS Integers, Sequences, FiniteSets, TLC

\* ------------------------------------------------------------------ bounds
MaxGroups == 7
MaxFees == 2
MaxDiscounts == 2
MaxSubErrors == 2

\* ------------------------------------------------------------- JS values
Undefined == [k |-> "undefined"]
Null == [k |-> "null"]
Str(s) == [k |-> "string", v |-> s]
Num(c) == [k |-> "number", v |-> c]
Arr(q) == [k |-> "array", v |-> q]

\* JavaScript truthiness: undefined, null, "" and 0 are falsy
Truthy(x) ==
  CASE x.k = "undefined" -> FALSE
    [] x.k = "null" -> FALSE
    [] x.k = "string" -> x.v /= ""
    [] x.k = "number" -> x.v /= 0
    [] OTHER -> TRUE

\* a || b
Or(a, b) == IF Truthy(a) THEN a ELSE b

\* Array.isArray(x)
IsArray(x) == x.k = "array"

\* Array.isArray(x) ? x : []   (as a sequence)
ArrayOrEmpty(x) == IF IsArray(x) THEN x.v ELSE <<>>

Min(a, b) == IF a < b THEN a ELSE b
Max(a, b) == IF a > b THEN a ELSE b

\* Math.ceil(n / d) for n >= 0, d > 0
CeilDiv(n, d) == (n + d - 1) \div d

\* Array.prototype.slice(start, end): negative indices count from the end,
\* both ends are clamped to the array
Slice(q, start, end) ==
  LET len == Len(q)
      s == IF start < 0 THEN Max(len + start, 0) ELSE Min(start, len)
      e == IF end < 0 THEN Max(len + end, 0) ELSE Min(end, len)
  IN IF s < e THEN SubSeq(q, s + 1, e) ELSE <<>>

\* two decimal digits of a cents remainder
TwoDigits(n) == IF n < 10 THEN "0" \o ToString(n) ELSE ToString(n)

\* String(x) as used by template literals and Array.prototype.join;
\* a number prints with its decimals only when it has any
NumberToString(c) ==
  LET a == IF c < 0 THEN 0 - c ELSE c
      sign == IF c < 0 THEN "-" ELSE ""
  IN IF a % 100 = 0 THEN sign \o ToString(a \div 100)
     ELSE sign \o ToString(a \div 100) \o "." \o TwoDigits(a % 100)

TemplateString(x) ==
  CASE x.k = "undefined" -> "undefined"
    [] x.k = "null" -> "null"
    [] x.k = "string" -> x.v
    [] x.k = "number" -> NumberToString(x.v)
    [] OTHER -> "[object]"

\* ------------------------------------------------------------- formatting
NaN == [k |-> "NaN"]

\* Number(value) on the strings the inputs use; any other text is NaN
ToNumber(x) ==
  CASE x.k = "number" -> x
    [] x.k = "null" -> Num(0)
    [] x.k = "string" ->
         (CASE x.v = "" -> Num(0)
            [] x.v = "12" -> Num(1200)
            [] x.v = "2.5" -> Num(250)
            [] x.v = "40.00" -> Num(4000)
            [] OTHER -> NaN)
    [] OTHER -> NaN

\* Intl.NumberFormat('en-US', {style:'currency', currency:'USD'}).format(num)
\* for |num| < 1000 dollars (no grouping separator)
FormatUSD(c) ==
  LET a == IF c < 0 THEN 0 - c ELSE c
  IN (IF c < 0 THEN "-" ELSE "") \o "$" \o ToString(a \div 100) \o "."
       \o TwoDigits(a % 100)

formatCurrency(value) ==
  LET num == IF value.k = "number" THEN value ELSE ToNumber(value)
  IN IF num = NaN THEN value ELSE Str(FormatUSD(num.v))

formatDiscount(value) ==
  LET num == IF value.k = "number" THEN value ELSE ToNumber(value)
  IN IF num = NaN THEN value ELSE Str(FormatUSD(num.v))

MonthShort ==
  <<"Jan", "Feb", "Mar", "Apr", "May", "Jun",
    "Jul", "Aug", "Sep", "Oct", "Nov", "Dec">>

\* dateStr.split('-').map(s => parseInt(s, 10)) on the date strings the
\* inputs use; 0 stands for NaN
SplitDate(s) ==
  CASE s = "2025-01-05" -> <<2025, 1, 5>>
    [] s = "2025-12-31" -> <<2025, 12, 31>>
    [] s = "2026-02" -> <<2026, 2, 0>>
    [] OTHER -> <<0, 0, 0>>

\* new Date(y, (m || 1) - 1, d || 1) rendered with
\* {year:'numeric', month:'short', day:'numeric'}; an invalid date makes
\* format throw and the catch returns the input
formatDate(dateStr) ==
  LET p == SplitDate(Or(dateStr, Str("")).v)
      y == p[1]
      m == IF p[2] = 0 THEN 1 ELSE p[2]
      d == IF p[3] = 0 THEN 1 ELSE p[3]
  IN IF y = 0 THEN dateStr
     ELSE Str(MonthShort[m] \o " " \o ToString(d) \o ", " \o ToString(y))

\* ------------------------------------------------------------- mapping
mapPaymentMethod(pm) ==
  IF ~Truthy(pm) \/ pm.displayType = Str("BILL_TO_ACCOUNT")
  THEN [label |-> Str("Bill to Account"), nickname |-> Null,
        cardType |-> Null, endingIn |-> Null, expiration |-> Null,
        type |-> "BILL_TO_ACCOUNT"]
  ELSE [label |-> Null, nickname |-> pm.nickname, cardType |-> pm.cardType,
        endingIn |-> pm.endingIn, expiration |-> pm.expiration,
        type |-> "STORED_ACCOUNT"]

HasScheduleId(d) == Truthy(d.discountScheduleId)

\* mapDiscounts dropping the discounts that have no schedule id
mapDiscounts_skip(discounts) ==
  LET arr == SelectSeq(ArrayOrEmpty(discounts), HasScheduleId)
  IN [i \in 1..Len(arr) |->
        [name |-> arr[i].name,
         amount |-> formatDiscount(arr[i].amount),
         discountScheduleId |-> arr[i].discountScheduleId,
         parentFeeScheduleId |-> arr[i].parentFeeScheduleId,
         tliDescription |-> arr[i].tliDescription]]

mapDiscounts(discounts) ==
  LET arr == ArrayOrEmpty(discounts)
  IN [i \in 1..Len(arr) |->
        [name |-> arr[i].name,
         amount |-> formatDiscount(arr[i].amount),
         discountScheduleId |-> arr[i].discountScheduleId,
         parentFeeScheduleId |-> arr[i].parentFeeScheduleId,
         tliDescription |-> arr[i].tliDescription]]

mapSectionItems(items) ==
  LET arr == ArrayOrEmpty(items)
  IN [i \in 1..Len(arr) |->
        [feeName |-> arr[i].feeName,
         feeAmount |-> formatCurrency(arr[i].feeAmount),
         feeScheduleId |-> arr[i].feeScheduleId,
         tliDescription |-> arr[i].tliDescription,
         discounts |-> mapDiscounts(arr[i].discounts)]]

EmDash == "&mdash;"

FeeRow(fee) ==
  [id |-> "fee-" \o TemplateString(fee.feeScheduleId),
   description |-> Or(Or(fee.tliDescription, fee.feeName), Str(EmDash)),
   type |-> "Fee",
   amount |-> fee.feeAmount,
   recordId |-> fee.feeScheduleId]

DiscountRow(prefix, disc) ==
  [id |-> prefix \o TemplateString(disc.discountScheduleId),
   description |-> Or(Or(disc.tliDescription, disc.name), Str(EmDash)),
   type |-> "Discount",
   amount |-> Str("-" \o TemplateString(disc.amount)),
   recordId |-> disc.discountScheduleId]

\* the rows one fee item pushes: its Fee row, then its discounts
FeeItemRows(fee) ==
  <<FeeRow(fee)>> \o
  [k \in 1..Len(fee.discounts) |-> DiscountRow("disc-", fee.discounts[k])]

RECURSIVE FeeRows(_)
FeeRows(items) ==
  IF items = <<>> THEN <<>>
  ELSE FeeItemRows(Head(items)) \o FeeRows(Tail(items))

\* group.items and group.miscDiscounts are the arrays mapSectionItems and
\* mapDiscounts returned, so the "|| []" guards never replace them
buildDetailRows(group) ==
  FeeRows(group.items) \o
  [k \in 1..Len(group.miscDiscounts) |->
     DiscountRow("disc-misc-", group.miscDiscounts[k])]

Nbsp == "&nbsp;"
MiddleDot == "&middot;"
Pad == Nbsp \o Nbsp \o Nbsp

MapGroup(g) ==
  LET mapped ==
        [id |-> g.sectionId,
         groupId |-> g.billingScheduleGroupId,
         name |-> g.billingScheduleGroupName,
         nextDate |-> IF Truthy(g.nextBillingDate)
                      THEN formatDate(g.nextBillingDate) ELSE Null,
         feeTotal |-> formatCurrency(g.feeTotal),
         discountTotal |-> formatDiscount(g.discountTotal),
         netTotal |-> formatCurrency(g.netTotal),
         paymentMethod |-> mapPaymentMethod(g.paymentMethod),
         tliDescription |-> g.tliDescription,
         items |-> mapSectionItems(g.items),
         miscDiscounts |-> mapDiscounts(g.miscDiscounts)]
  IN [id |-> mapped.id,
      groupId |-> mapped.groupId,
      name |-> mapped.name,
      nextDate |-> mapped.nextDate,
      feeTotal |-> mapped.feeTotal,
      discountTotal |-> mapped.discountTotal,
      netTotal |-> mapped.netTotal,
      paymentMethod |-> mapped.paymentMethod,
      tliDescription |-> mapped.tliDescription,
      items |-> mapped.items,
      miscDiscounts |-> mapped.miscDiscounts,
      detailRows |-> buildDetailRows(mapped),
      accordionLabel |->
        "Details: " \o Pad \o "Fees " \o TemplateString(mapped.feeTotal)
          \o Pad \o MiddleDot \o Pad \o "Discounts "
          \o TemplateString(mapped.discountTotal)]

\* ------------------------------------------------------------- errors
\* Array.prototype.join: undefined and null elements print as ""
RECURSIVE Join(_, _)
Join(q, sep) ==
  IF q = <<>> THEN ""
  ELSE LET h == IF Head(q).k \in {"undefined", "null"} THEN ""
                ELSE TemplateString(Head(q))
       IN IF Len(q) = 1 THEN h ELSE h \o sep \o Join(Tail(q), sep)

\* error is an object [body, statusText]; body is Undefined, an Arr of
\* [message] objects, or an object [k |-> "object", message]
normalizeError(err) ==
  IF IsArray(err.body)
  THEN Str(Join([i \in 1..Len(err.body.v) |-> err.body.v[i].message], ", "))
  ELSE IF err.body.k = "object" /\ Truthy(err.body.message)
       THEN err.body.message
       ELSE Or(err.statusText, Str("Unknown error"))

\* ------------------------------------------------------------- inputs
SeqUpTo(S, n) == UNION {[1..m -> S] : m \in 0..n}

\* RawDiscount records the Apex service can hand over
D1 ==
  [name |-> Str("Sibling"), amount |-> Num(500),
   discountScheduleId |-> Str("D1"), parentFeeScheduleId |-> Str("F1"),
   tliDescription |-> Undefined]

D2 ==
  [name |-> Str("Promo"), amount |-> Str("2.5"),
   discountScheduleId |-> Str("D2"), parentFeeScheduleId |-> Undefined,
   tliDescription |-> Str("Promo code")]

\* a discount with every field missing
D3 ==
  [name |-> Undefined, amount |-> Undefined,
   discountScheduleId |-> Undefined, parentFeeScheduleId |-> Undefined,
   tliDescription |-> Undefined]

DiscountPool == <<D1, D2, D3>>

\* the n discounts of the pool taken in turn from position o
DiscountRun(n, o) == [i \in 1..n |-> DiscountPool[((o + i) % 3) + 1]]

\* a missing list, an empty one, and the runs of up to MaxDiscounts
DiscountLists ==
  {Undefined} \cup
  {Arr(DiscountRun(n, o)) : n \in 0..MaxDiscounts, o \in 0..2}

\* RawFeeItem records without their discounts
F1 ==
  [feeName |-> Str("Dues"), feeAmount |-> Num(4000),
   feeScheduleId |-> Str("F1"), tliDescription |-> Undefined]

F2 ==
  [feeName |-> Str("Locker"), feeAmount |-> Str("12"),
   feeScheduleId |-> Str("F2"), tliDescription |-> Str("Locker rental")]

\* a fee item with every optional field missing
F3 ==
  [feeName |-> Undefined, feeAmount |-> Str("N/A"),
   feeScheduleId |-> Undefined, tliDescription |-> Undefined]

FeePool == {F2, F3}

FeeItems ==
  {[feeName |-> f.feeName, feeAmount |-> f.feeAmount,
    feeScheduleId |-> f.feeScheduleId, tliDescription |-> f.tliDescription,
    discounts |-> d] : f \in FeePool, d \in DiscountLists}

ItemLists == {Undefined} \cup {Arr(q) : q \in SeqUpTo(FeeItems, MaxFees)}

StoredCard ==
  [k |-> "object", displayType |-> Str("STORED_ACCOUNT"),
   nickname |-> Str("Visa"), cardType |-> Str("VISA"),
   endingIn |-> Str("1234"), expiration |-> Str("12/27")]

BillToAccount ==
  [k |-> "object", displayType |-> Str("BILL_TO_ACCOUNT"),
   nickname |-> Undefined, cardType |-> Undefined,
   endingIn |-> Undefined, expiration |-> Undefined]

RawGroup(sid, items, misc) ==
  [sectionId |-> sid, billingScheduleGroupId |-> Str("G1"),
   billingScheduleGroupName |-> Str("Family membership"),
   nextBillingDate |-> Str("2025-01-05"), feeTotal |-> Num(5200),
   discountTotal |-> Num(750), netTotal |-> Num(4450),
   paymentMethod |-> StoredCard, tliDescription |-> Str("Membership"),
   items |-> items, miscDiscounts |-> misc]

\* the raw groups buildDetailRows is exercised on
RawGroups ==
  {RawGroup(Str("S1"), it, md) : it \in ItemLists, md \in DiscountLists}

WithDiscounts(f, d) ==
  [feeName |-> f.feeName, feeAmount |-> f.feeAmount,
   feeScheduleId |-> f.feeScheduleId, tliDescription |-> f.tliDescription,
   discounts |-> d]

\* three shapes of raw group a payload is made of
GroupShape(n, sid) ==
  CASE n = 0 -> RawGroup(sid, Arr(<<WithDiscounts(F1, Arr(<<D1>>))>>),
                         Arr(<<D2>>))
    [] n = 1 ->
         [sectionId |-> sid, billingScheduleGroupId |-> Str("G2"),
          billingScheduleGroupName |-> Undefined,
          nextBillingDate |-> Undefined, feeTotal |-> Str("N/A"),
          discountTotal |-> Undefined, netTotal |-> Null,
          paymentMethod |-> Undefined, tliDescription |-> Undefined,
          items |-> Undefined, miscDiscounts |-> Undefined]
    [] OTHER ->
         [sectionId |-> sid, billingScheduleGroupId |-> Str("G3"),
          billingScheduleGroupName |-> Str("Swim lessons"),
          nextBillingDate |-> Str("2026-02"), feeTotal |-> Str("40.00"),
          discountTotal |-> Str("2.5"), netTotal |-> Str("12"),
          paymentMethod |-> BillToAccount, tliDescription |-> Str(""),
          items |-> Arr(<<WithDiscounts(F2, Undefined),
                          WithDiscounts(F3, Arr(<<D3, D3>>))>>),
          miscDiscounts |-> Arr(<<>>)]

\* the shape the first group of a payload has
PayloadOffsets == {1, 2}

\* a payload of n raw groups with section ids S1..Sn
Payload(n, v) ==
  [i \in 1..n |-> GroupShape((i + v) % 3, Str("S" \o ToString(i)))]

Payloads == {Payload(n, v) : n \in 0..MaxGroups, v \in PayloadOffsets}

\* error objects of the wire adapter: body absent, a list of sub-errors, or
\* a single object; a message or the status text may be missing or empty
Messages == {Undefined, Str(""), Str("A"), Str("B")}

SubErrors == {[message |-> m] : m \in Messages}

Bodies ==
  {Undefined}
  \cup {Arr(q) : q \in SeqUpTo(SubErrors, MaxSubErrors)}
  \cup {[k |-> "object", message |-> m] : m \in {Undefined, Str(""), Str("C")}}

ErrorShapes ==
  {[k |-> "object", body |-> b, statusText |-> st] :
     b \in Bodies, st \in {Undefined, Str(""), Str("Bad Request")}}

\* the error objects the controller is driven with
WireErrors == {e \in ErrorShapes : IsArray(e.body) => Len(e.body.v) <= 1}

\* what the wire adapter hands to wiredPayments
Deliveries ==
  {[data |-> Arr(p), error |-> Undefined] : p \in Payloads}
  \cup {[data |-> Undefined, error |-> e] : e \in WireErrors}
  \cup {[data |-> Undefined, error |-> Undefined]}

\* ------------------------------------------------------------- state
VARIABLES
  groups,              \* @track groups
  displayedGroups,     \* @track displayedGroups
  error,               \* @track error
  loading,             \* @track loading
  activeSectionNames,  \* @track activeSectionNames
  currentPage,         \* @track currentPage
  wire,                \* the delivery the wire adapter made last
  navRequest,          \* the page reference NavigationMixin.Navigate got last
  lastOp,              \* the handler that ran last
  input,               \* argument of the function under test
  output               \* its result

vars ==
  <<groups, displayedGroups, error, loading, activeSectionNames,
    currentPage, wire, navRequest, lastOp, input, output>>

pageSize == 3

Constructed ==
  /\ groups = <<>>
  /\ displayedGroups = <<>>
  /\ error = Undefined
  /\ loading = TRUE
  /\ activeSectionNames = <<>>
  /\ currentPage = 1
  /\ wire = Undefined
  /\ navRequest = Undefined
  /\ lastOp = "constructor"

Init ==
  /\ Constructed
  /\ input = Undefined
  /\ output = Undefined

totalPages == Max(1, CeilDiv(Len(groups), pageSize))

hasPagination == Len(groups) > pageSize

\* disablePrev off by one
disablePrev_off == currentPage < 1

disablePrev == currentPage <= 1

\* disableNext off by one
disableNext_off == currentPage > totalPages

disableNext == currentPage >= totalPages

\* refreshDisplayed with an inclusive end
refreshDisplayed_wide(grps, page) ==
  LET start == (page - 1) * pageSize
      end == start + pageSize + 1
  IN Slice(grps, start, end)

\* the slice refreshDisplayed stores, for the groups and page it runs on
refreshDisplayed(grps, page) ==
  LET start == (page - 1) * pageSize
      end == start + pageSize
  IN Slice(grps, start, end)

\* the branch of wiredPayments taken on data
wiredPaymentsData(data) ==
  /\ groups' = [i \in 1..Len(data.v) |-> MapGroup(data.v[i])]
  /\ currentPage' = 1
  /\ displayedGroups' = refreshDisplayed(groups', currentPage')
  /\ error' = Undefined

\* the error branch without the page reset
wiredPaymentsError_keepPage(err) ==
  /\ error' = normalizeError(err)
  /\ groups' = <<>>
  /\ displayedGroups' = <<>>
  /\ UNCHANGED currentPage

\* the branch of wiredPayments taken on error
wiredPaymentsError(err) ==
  /\ error' = normalizeError(err)
  /\ groups' = <<>>
  /\ displayedGroups' = <<>>
  /\ currentPage' = 1

wiredPayments(d) ==
  /\ loading' = FALSE
  /\ IF Truthy(d.data) THEN wiredPaymentsData(d.data)
     ELSE IF Truthy(d.error) THEN wiredPaymentsError(d.error)
     ELSE UNCHANGED <<groups, displayedGroups, currentPage, error>>
  /\ wire' = d
  /\ lastOp' = "wiredPayments"
  /\ UNCHANGED <<activeSectionNames, navRequest, input, output>>

\* what a pagination handler leaves alone
PaginationFrame ==
  UNCHANGED <<groups, error, loading, activeSectionNames, wire, navRequest,
              input, output>>

\* handleFirst without the call of refreshDisplayed
handleFirst_norefresh ==
  /\ IF ~disablePrev
     THEN /\ currentPage' = 1
          /\ UNCHANGED displayedGroups
     ELSE UNCHANGED <<currentPage, displayedGroups>>
  /\ lastOp' = "handleFirst"
  /\ PaginationFrame

handleFirst ==
  /\ IF ~disablePrev
     THEN /\ currentPage' = 1
          /\ displayedGroups' = refreshDisplayed(groups, currentPage')
     ELSE UNCHANGED <<currentPage, displayedGroups>>
  /\ lastOp' = "handleFirst"
  /\ PaginationFrame

handlePrev ==
  /\ IF ~disablePrev
     THEN /\ currentPage' = currentPage - 1
          /\ displayedGroups' = refreshDisplayed(groups, currentPage')
     ELSE UNCHANGED <<currentPage, displayedGroups>>
  /\ lastOp' = "handlePrev"
  /\ PaginationFrame

handleNext ==
  /\ IF ~disableNext
     THEN /\ currentPage' = currentPage + 1
          /\ displayedGroups' = refreshDisplayed(groups, currentPage')
     ELSE UNCHANGED <<currentPage, displayedGroups>>
  /\ lastOp' = "handleNext"
  /\ PaginationFrame

handleLast ==
  /\ IF ~disableNext
     THEN /\ currentPage' = totalPages
          /\ displayedGroups' = refreshDisplayed(groups, currentPage')
     ELSE UNCHANGED <<currentPage, displayedGroups>>
  /\ lastOp' = "handleLast"
  /\ PaginationFrame

\* record ids a click on a rendered row link can carry
RowRecordIds ==
  {Undefined} \cup
  UNION {{displayedGroups[i].detailRows[j].recordId :
            j \in 1..Len(displayedGroups[i].detailRows)} :
         i \in 1..Len(displayedGroups)}

handleRowLinkClick(recId) ==
  /\ IF ~Truthy(recId) THEN UNCHANGED navRequest
     ELSE navRequest' =
            [type |-> "standard__recordPage",
             attributes |-> [recordId |-> recId,
                             objectApiName |-> "TREX1__Billing_Schedule__c",
                             actionName |-> "view"]]
  /\ lastOp' = "handleRowLinkClick"
  /\ UNCHANGED <<groups, displayedGroups, error, loading,
                 activeSectionNames, currentPage, wire, input, output>>

\* event.detail.openSections of the accordion showing the displayed groups:
\* every section closed, or the first one open
OpenSections ==
  {<<>>} \cup {<<displayedGroups[i].id>> : i \in 1..Min(1, Len(displayedGroups))}

\* handleAccordionToggle going back to the first page
handleAccordionToggle_reset(openSections) ==
  /\ activeSectionNames' = openSections
  /\ currentPage' = 1
  /\ displayedGroups' = refreshDisplayed(groups, currentPage')
  /\ lastOp' = "handleAccordionToggle"
  /\ UNCHANGED <<groups, error, loading, wire, navRequest, input, output>>

handleAccordionToggle(openSections) ==
  /\ activeSectionNames' = openSections
  /\ lastOp' = "handleAccordionToggle"
  /\ UNCHANGED <<groups, displayedGroups, error, loading, currentPage,
                 wire, navRequest, input, output>>

Next ==
  \/ \E d \in Deliveries : wiredPayments(d)
  \/ handleFirst
  \/ handlePrev
  \/ handleNext
  \/ handleLast
  \/ \E r \in RowRecordIds : handleRowLinkClick(r)
  \/ \E o \in OpenSections : handleAccordionToggle(o)

Spec == Init /\ [][Next]_vars

\* ------------------------------------------------- buildDetailRows alone
\* one raw group is mapped as the callback of data.map maps it
InitRows ==
  /\ Constructed
  /\ input \in RawGroups
  /\ output = Undefined

ApplyMapGroup ==
  /\ output = Undefined
  /\ output' = MapGroup(input)
  /\ UNCHANGED <<groups, displayedGroups, error, loading, activeSectionNames,
                 currentPage, wire, navRequest, lastOp, input>>

NextRows == ApplyMapGroup

SpecRows == InitRows /\ [][NextRows]_vars

\* -------------------------------------------------- normalizeError alone
InitErr ==
  /\ Constructed
  /\ input \in ErrorShapes
  /\ output = Undefined

ApplyNormalizeError ==
  /\ output = Undefined
  /\ output' = normalizeError(input)
  /\ UNCHANGED <<groups, displayedGroups, error, loading, activeSectionNames,
                 currentPage, wire, navRequest, lastOp, input>>

NextErr == ApplyNormalizeError

SpecErr == InitErr /\ [][NextErr]_vars

\* ------------------------------------------------------------- properties
\* max(1, ceil(n / 3)) stated without division: the least number of pages
\* of three that hold n groups, and one page when there is none
PagesFor(n) ==
  IF n = 0 THEN 1
  ELSE CHOOSE p \in 1..n : p * 3 >= n /\ (p - 1) * 3 < n

\* the window of page p over q, element by element
Window(q, p) ==
  LET first == (p - 1) * 3
      n == IF Len(q) - first >= 3 THEN 3
           ELSE IF Len(q) - first > 0 THEN Len(q) - first ELSE 0
  IN [i \in 1..n |-> q[first + i]]

PaginationOps == {"handleFirst", "handlePrev", "handleNext", "handleLast"}

\* C1: in every reachable state currentPage is an integer with
\* 1 <= currentPage <= totalPages = max(1, ceil(groups.length / 3))
PageInRange ==
  /\ currentPage \in Int
  /\ 1 <= currentPage
  /\ currentPage <= PagesFor(Len(groups))
  /\ totalPages = PagesFor(Len(groups))

PageInRangeWitness ==
  /\ lastOp = "handleNext"
  /\ Len(groups) = 6
  /\ currentPage = 2

\* C2: in every reachable state displayedGroups is the window
\* groups[(currentPage-1)*3 : currentPage*3] clamped to groups, in the
\* order of groups, and never longer than 3
DisplayedIsWindow ==
  /\ displayedGroups = Window(groups, currentPage)
  /\ Len(displayedGroups) <= 3

DisplayedIsWindowWitness ==
  /\ lastOp = "handleNext"
  /\ Len(groups) = 5
  /\ currentPage = 2
  /\ Len(displayedGroups) = 2
  /\ displayedGroups[1].id = Str("S4")

\* C3: a payload arrival with n raw groups leaves groups = the n mapped
\* groups in payload order, currentPage = 1, displayedGroups = the first
\* min(n, 3) of them and no error; an error arrival leaves groups and
\* displayedGroups empty, currentPage = 1 and error = normalizeError of the
\* delivered error; nothing of the prior state survives
ArrivalOverwrites ==
  lastOp = "wiredPayments" =>
    /\ Truthy(wire.data) =>
         /\ Len(groups) = Len(wire.data.v)
         /\ \A i \in 1..Len(groups) : groups[i] = MapGroup(wire.data.v[i])
         /\ \A i \in 1..Len(groups) : groups[i].id = wire.data.v[i].sectionId
         /\ currentPage = 1
         /\ displayedGroups = Window(groups, 1)
         /\ error = Undefined
    /\ (~Truthy(wire.data) /\ Truthy(wire.error)) =>
         /\ groups = <<>>
         /\ displayedGroups = <<>>
         /\ currentPage = 1
         /\ error = normalizeError(wire.error)

\* an error arrives after groups were shown and a row link was followed
ArrivalOverwritesWitness ==
  /\ lastOp = "wiredPayments"
  /\ Truthy(wire.error)
  /\ navRequest /= Undefined
  /\ activeSectionNames = <<Str("S4")>>
  /\ error = Str("A")

\* C4: on page 1 handlePrev and handleFirst leave currentPage and
\* displayedGroups unchanged; on the last page handleNext and handleLast
\* leave them unchanged
BoundaryNoOpStep ==
  /\ (lastOp' \in {"handlePrev", "handleFirst"} /\ currentPage = 1) =>
       UNCHANGED <<currentPage, displayedGroups>>
  /\ (lastOp' \in {"handleNext", "handleLast"}
        /\ currentPage = PagesFor(Len(groups))) =>
       UNCHANGED <<currentPage, displayedGroups>>

BoundaryNoOps == [][BoundaryNoOpStep]_vars

\* Next ran on the only page of a two-group list
BoundaryNoOpsWitness ==
  /\ lastOp = "handleNext"
  /\ Len(groups) = 2
  /\ currentPage = 1
  /\ Len(displayedGroups) = 2

Ids(q) == [i \in 1..Len(q) |-> q[i].id]

\* C5: handleFirst sets currentPage to 1, handleLast to totalPages,
\* handlePrev to p-1 when p > 1, handleNext to p+1 when p < totalPages, each
\* recomputing displayedGroups; with 7 groups totalPages = 3, page 1 shows
\* groups 1-3, one Next shows 4-6 on page 2, Last shows group 7 alone on
\* page 3 and a further Next changes nothing
NavigationStep ==
  /\ lastOp' = "handleFirst" => currentPage' = 1
  /\ lastOp' = "handleLast" => currentPage' = PagesFor(Len(groups))
  /\ (lastOp' = "handlePrev" /\ currentPage > 1) =>
       currentPage' = currentPage - 1
  /\ (lastOp' = "handleNext" /\ currentPage < PagesFor(Len(groups))) =>
       currentPage' = currentPage + 1
  /\ lastOp' \in PaginationOps =>
       displayedGroups' = Window(groups', currentPage')

SevenGroupsStep ==
  Len(groups') = 7 =>
    /\ totalPages' = 3
    /\ (lastOp' = "wiredPayments" /\ Truthy(wire'.data)) =>
         /\ currentPage' = 1
         /\ Ids(displayedGroups') = <<Str("S1"), Str("S2"), Str("S3")>>
    /\ (lastOp' = "handleNext" /\ currentPage = 1) =>
         /\ currentPage' = 2
         /\ Ids(displayedGroups') = <<Str("S4"), Str("S5"), Str("S6")>>
    /\ lastOp' = "handleLast" =>
         /\ currentPage' = 3
         /\ Ids(displayedGroups') = <<Str("S7")>>
    /\ (lastOp' = "handleNext" /\ currentPage = 3) =>
         UNCHANGED <<currentPage, displayedGroups>>

NavigationEffects == [][NavigationStep /\ SevenGroupsStep]_vars

NavigationEffectsWitness ==
  /\ lastOp = "handleLast"
  /\ Len(groups) = 7
  /\ currentPage = 3
  /\ Ids(displayedGroups) = <<Str("S7")>>

\* raw fee items and discounts of the group under test
RawItems == ArrayOrEmpty(input.items)
RawMisc == ArrayOrEmpty(input.miscDiscounts)
RawFeeDiscounts(i) == ArrayOrEmpty(RawItems[i].discounts)

\* rows that precede the Fee row of fee item i
RECURSIVE RowsBefore(_)
RowsBefore(i) ==
  IF i <= 1 THEN 0
  ELSE RowsBefore(i - 1) + 1 + Len(RawFeeDiscounts(i - 1))

\* C6: buildDetailRows returns (fee items) + (sum of their discounts) +
\* (misc discounts) rows: per fee item in input order its Fee row followed
\* by its Discount rows in input order, then one Discount row per misc
\* discount in input order; a missing optional field omits no row
RowCountAndOrder ==
  output /= Undefined =>
    LET rows == output.detailRows
        feeRows == RowsBefore(Len(RawItems) + 1)
    IN /\ Len(rows) = feeRows + Len(RawMisc)
       /\ \A i \in 1..Len(RawItems) :
            /\ rows[RowsBefore(i) + 1].type = "Fee"
            /\ rows[RowsBefore(i) + 1].recordId = RawItems[i].feeScheduleId
            /\ \A j \in 1..Len(RawFeeDiscounts(i)) :
                 /\ rows[RowsBefore(i) + 1 + j].type = "Discount"
                 /\ rows[RowsBefore(i) + 1 + j].recordId =
                      RawFeeDiscounts(i)[j].discountScheduleId
                 /\ rows[RowsBefore(i) + 1 + j].id =
                      "disc-" \o TemplateString(
                         RawFeeDiscounts(i)[j].discountScheduleId)
       /\ \A j \in 1..Len(RawMisc) :
            /\ rows[feeRows + j].type = "Discount"
            /\ rows[feeRows + j].recordId = RawMisc[j].discountScheduleId
            /\ rows[feeRows + j].id =
                 "disc-misc-" \o TemplateString(RawMisc[j].discountScheduleId)

\* two fee items, the second without any optional field, two discounts
\* on each and two misc discounts
RowCountAndOrderWitness ==
  /\ output /= Undefined
  /\ Len(RawItems) = 2
  /\ RawItems[2].feeScheduleId = Undefined
  /\ Len(RawFeeDiscounts(1)) = 2
  /\ Len(RawFeeDiscounts(2)) = 2
  /\ RawFeeDiscounts(2)[1].discountScheduleId = Undefined
  /\ RawFeeDiscounts(2)[2].discountScheduleId = Str("D1")
  /\ Len(RawMisc) = 2
  /\ Len(output.detailRows) = 8

\* C7: the ids of the detailRows of one group are pairwise distinct,
\* whatever fee items and discounts the group carries
RowIdsDistinct ==
  output /= Undefined =>
    \A i, j \in 1..Len(output.detailRows) :
      i /= j => output.detailRows[i].id /= output.detailRows[j].id

\* a sub-error that carries a message
HasMessage(e) == e.message /= Undefined

\* the message the priority chain (a)-(d) names for an error
ChainMessage(err) ==
  IF IsArray(err.body) /\ \A i \in 1..Len(err.body.v) : HasMessage(err.body.v[i])
  THEN Str(Join([i \in 1..Len(err.body.v) |-> err.body.v[i].message], ", "))
  ELSE IF ~IsArray(err.body) /\ err.body /= Undefined
          /\ Truthy(err.body.message)
       THEN err.body.message
       ELSE IF Truthy(err.statusText) THEN err.statusText
            ELSE Str("Unknown error")

\* C8: normalizeError is a strict priority chain over every error shape:
\* (a) a list of sub-errors each with a message gives the messages joined
\* with ", "; (b) otherwise a single body message gives that message;
\* (c) otherwise a status text gives that text; (d) otherwise the result is
\* "Unknown error"
ErrorPriorityChain ==
  output /= Undefined => output = ChainMessage(input)

\* the three states of the controller
Loading == loading
Loaded == ~loading /\ error = Undefined
Errored == ~loading /\ error /= Undefined /\ groups = <<>>

ExactlyOneState ==
  /\ Loading \/ Loaded \/ Errored
  /\ ~(Loading /\ Loaded)
  /\ ~(Loading /\ Errored)
  /\ ~(Loaded /\ Errored)

LeaveLoadingStep ==
  (loading /\ ~loading') =>
    \/ Truthy(wire'.data) /\ Loaded'
    \/ ~Truthy(wire'.data) /\ Truthy(wire'.error) /\ Errored'

\* C9: the controller starts in Loading and leaves it only through a
\* payload arrival (to Loaded) or an error arrival (to Errored), and in
\* every reachable state it is in exactly one of Loading, Loaded, Errored
LoadingLeftOnlyByArrival ==
  [][LeaveLoadingStep /\ ExactlyOneState /\ ExactlyOneState']_vars

\* C10: handleFirst, handlePrev, handleNext and handleLast change at most
\* currentPage and displayedGroups, never groups, error or loading;
\* handleRowLinkClick and handleAccordionToggle change none of groups,
\* displayedGroups, currentPage and error
FrameStep ==
  /\ lastOp' \in PaginationOps => UNCHANGED <<groups, error, loading>>
  /\ lastOp' \in {"handleRowLinkClick", "handleAccordionToggle"} =>
       UNCHANGED <<groups, displayedGroups, currentPage, error>>

UserActionFrame == [][FrameStep]_vars

\* on page 2 a section was opened and then a row link followed
UserActionFrameWitness ==
  /\ lastOp = "handleRowLinkClick"
  /\ navRequest /= Undefined
  /\ activeSectionNames /= <<>>
  /\ currentPage = 2
  /\ Len(groups) = 4

====
